---- MODULE Spec2Model ----
(***************************************************************************)
(* Model of the news-impact MCP gateway (src/server/mcp_server.py): the    *)
(* argument validator, the store round trip, the document normalizer and   *)
(* the response builder of the "news-impact" tool, together with the tool  *)
(* advertisement of list_tools.                                            *)
(*                                                                         *)
(* Python values are tagged records; every tag has its own payload field,  *)
(* so values of different Python types are always comparable:              *)
(*   None      [t |-> "none"]                                              *)
(*   bool      [t |-> "bool",  b |-> BOOLEAN]                              *)
(*   int       [t |-> "int",   i |-> Int]                                  *)
(*   float     [t |-> "float", m |-> Int]     the number m/10              *)
(*   str       [t |-> "str",   s |-> STRING]                               *)
(*   dict      [t |-> "dict",  kv |-> sequence of <<key, value>>]          *)
(*             (insertion order, as Python dicts keep it)                  *)
(*   list      [t |-> "list",  xs |-> sequence of values]                  *)
(*   datetime  [t |-> "datetime", year, month, day, hour, minute, second,  *)
(*              microsecond |-> Nat]   naive, as the driver decodes dates   *)
(* Strings hold the characters U+0001 to U+007F; the ints of requests and  *)
(* documents are those of TLC (32 bits).                                   *)
(* A text (message, content) is a sequence of string pieces, the pieces    *)
(* being what the code concatenates or formats into the string.            *)
(***************************************************************************)
EXTENDS Integers, Sequences, FiniteSets, TLC

VARIABLES pc, request, storeReply, call, advert, readySeen

vars == <<pc, request, storeReply, call, advert, readySeen>>

(***************************************************************************)
(* Python values                                                           *)
(***************************************************************************)
PyNone == [t |-> "none"]
PyBool(b) == [t |-> "bool", b |-> b]
PyInt(n) == [t |-> "int", i |-> n]
PyFloat(m) == [t |-> "float", m |-> m]
PyStr(s) == [t |-> "str", s |-> s]
PyDict(kv) == [t |-> "dict", kv |-> kv]
PyList(xs) == [t |-> "list", xs |-> xs]
PyDatetime(y, mo, d, h, mi, sec, us) ==
    [t |-> "datetime", year |-> y, month |-> mo, day |-> d,
     hour |-> h, minute |-> mi, second |-> sec, microsecond |-> us]

EmptyDict == PyDict(<<>>)

\* bool(x): Python truthiness, as used by `x or default` and `if not x`.
Truthy(x) ==
    CASE x.t = "none" -> FALSE
      [] x.t = "bool" -> x.b
      [] x.t = "int" -> x.i # 0
      [] x.t = "float" -> x.m # 0
      [] x.t = "str" -> x.s # ""
      [] x.t = "dict" -> x.kv # <<>>
      [] x.t = "list" -> x.xs # <<>>
      [] OTHER -> TRUE

\* x or y
PyOr(x, y) == IF Truthy(x) THEN x ELSE y

\* list(d.keys())
DictKeys(d) == [n \in 1..Len(d.kv) |-> d.kv[n][1]]

\* k in d
HasKey(d, k) == \E n \in 1..Len(d.kv) : d.kv[n][1] = k

\* d.get(k, default)
DictGet(d, k, default) ==
    IF HasKey(d, k)
    THEN d.kv[CHOOSE n \in 1..Len(d.kv) : d.kv[n][1] = k][2]
    ELSE default

\* The type name as the AttributeError message of lines 273-274 spells it.
TypeName(x) ==
    CASE x.t = "none" -> "NoneType"
      [] x.t = "datetime" -> "datetime.datetime"
      [] OTHER -> x.t

RECURSIVE Join(_, _)
\* sep.join(parts), as a text
Join(parts, sep) ==
    IF parts = <<>> THEN <<>>
    ELSE IF Len(parts) = 1 THEN <<parts[1]>>
    ELSE <<parts[1], sep>> \o Join(Tail(parts), sep)

(***************************************************************************)
(* Config & constants                                                      *)
(***************************************************************************)
ToolName == "news-impact"

ALLOWED_QUERY_KEYS == {"sentiment", "symbolmap.NSE", "symbolmap.Company_Name", "impact score"}

\* sorted(ALLOWED_QUERY_KEYS): Python orders str by code point
\* ("i" < "s"; "sentiment" < "symbolmap"; "symbolmap.C" < "symbolmap.N").
SortedAllowedKeys == <<"impact score", "sentiment", "symbolmap.Company_Name", "symbolmap.NSE">>

Sentiments == {"Positive", "Neutral", "Negative"}

AllowedOps == {"$gt", "$gte", "$lt", "$lte", "$eq"}

DefaultLimit == 10
MinLimit == 1
MaxLimit == 50

WidgetTemplateUri == "ui://widget/news-impact.html"
\* The source ends the text with U+2026; the three dots stand for it.
WidgetInvoking == "Fetching News Impact..."
WidgetInvoked == "News Impact ready"

(***************************************************************************)
(* Exceptions: a computation that can raise yields a record whose exc      *)
(* field is "none" on normal return and the exception class otherwise;     *)
(* msg is str(exception).                                                  *)
(***************************************************************************)
Raise(cls, msg) == [exc |-> cls, msg |-> msg]

(***************************************************************************)
(* Characters of a str                                                     *)
(***************************************************************************)
\* s[n - 1], as a one-character string
Char(s, n) == SubSeq(s, n, n)

\* s[n - 1:]
StrFrom(s, n) == SubSeq(s, n, Len(s))

\* U+000B
VerticalTab == ""

\* The white space int() drops around a literal.
IsSpace(c) == c \in {" ", "\t", "\n", VerticalTab, "\f", "\r"}

Digits == <<"0", "1", "2", "3", "4", "5", "6", "7", "8", "9">>

IsDigit(c) == \E n \in 1..10 : Digits[n] = c

DigitValue(c) == (CHOOSE n \in 1..10 : Digits[n] = c) - 1

RECURSIVE LStrip(_)
\* s.lstrip()
LStrip(s) ==
    IF s # "" /\ IsSpace(Char(s, 1)) THEN LStrip(StrFrom(s, 2)) ELSE s

RECURSIVE RStrip(_)
\* s.rstrip()
RStrip(s) ==
    IF s # "" /\ IsSpace(Char(s, Len(s))) THEN RStrip(SubSeq(s, 1, Len(s) - 1)) ELSE s

\* s.strip()
Strip(s) == RStrip(LStrip(s))

(***************************************************************************)
(* int(x), line 238                                                        *)
(***************************************************************************)
\* The body of a decimal literal: digits, single underscores between them.
IsDecimalBody(s) ==
    /\ s # ""
    /\ \A n \in 1..Len(s) : IsDigit(Char(s, n)) \/ Char(s, n) = "_"
    /\ IsDigit(Char(s, 1))
    /\ IsDigit(Char(s, Len(s)))
    /\ \A n \in 1..(Len(s) - 1) : ~(Char(s, n) = "_" /\ Char(s, n + 1) = "_")

RECURSIVE DropUnderscores(_)
DropUnderscores(s) ==
    IF s = "" THEN ""
    ELSE IF Char(s, 1) = "_" THEN DropUnderscores(StrFrom(s, 2))
    ELSE Char(s, 1) \o DropUnderscores(StrFrom(s, 2))

RECURSIVE DropLeadingZeros(_)
DropLeadingZeros(s) ==
    IF s # "" /\ Char(s, 1) = "0" THEN DropLeadingZeros(StrFrom(s, 2)) ELSE s

RECURSIVE DigitsValue(_)
\* The number a string of digits spells.
DigitsValue(s) ==
    IF s = "" THEN 0
    ELSE 10 * DigitsValue(SubSeq(s, 1, Len(s) - 1)) + DigitValue(Char(s, Len(s)))

\* sys.get_int_max_str_digits(): int() refuses a literal of more digits.
MaxStrDigits == 4300

(***************************************************************************)
(* A Python int has no width.  The int that int() returns is held as its   *)
(* sign and its decimal digits, [neg, digits]: digits has no leading zero  *)
(* ("0" for zero) and zero is not negative.                                *)
(***************************************************************************)
\* The int of sign neg whose magnitude the digit string ds spells.
Long(neg, ds) ==
    IF DropLeadingZeros(ds) = "" THEN [neg |-> FALSE, digits |-> "0"]
    ELSE [neg |-> neg, digits |-> DropLeadingZeros(ds)]

\* The int n.
LongOfInt(n) == [neg |-> n < 0, digits |-> ToString(IF n < 0 THEN -n ELSE n)]

RECURSIVE DigitsLess(_, _)
\* x < y for digit strings of one length
DigitsLess(x, y) ==
    IF x = "" THEN FALSE
    ELSE IF Char(x, 1) # Char(y, 1) THEN DigitValue(Char(x, 1)) < DigitValue(Char(y, 1))
    ELSE DigitsLess(StrFrom(x, 2), StrFrom(y, 2))

\* x < y for digit strings without leading zeros
MagnitudeLess(x, y) == IF Len(x) # Len(y) THEN Len(x) < Len(y) ELSE DigitsLess(x, y)

\* a < b
LongLess(a, b) ==
    IF a.neg # b.neg THEN a.neg
    ELSE IF a.neg THEN MagnitudeLess(b.digits, a.digits)
    ELSE MagnitudeLess(a.digits, b.digits)

\* a <= b
LongLE(a, b) == ~LongLess(b, a)

\* The number a is, for an a of at most nine digits.
LongValue(a) == IF a.neg THEN -DigitsValue(a.digits) ELSE DigitsValue(a.digits)

\* What int() yields when it raises.
NotAnInt == [ok |-> FALSE, neg |-> FALSE, digits |-> "0"]

\* What int() yields when it returns the int n.
AnInt(n) == [ok |-> TRUE, neg |-> n.neg, digits |-> n.digits]

\* int(body) for a stripped literal body without its sign, negated if neg.
IntOfBody(body, neg) ==
    IF ~IsDecimalBody(body) THEN NotAnInt
    ELSE IF Len(DropUnderscores(body)) > MaxStrDigits THEN NotAnInt
    ELSE AnInt(Long(neg, DropUnderscores(body)))

\* int(s) for a str: surrounding whitespace is dropped, one sign is allowed.
IntOfStr(s) ==
    IF Strip(s) = "" THEN NotAnInt
    ELSE IF Char(Strip(s), 1) = "-" THEN IntOfBody(StrFrom(Strip(s), 2), TRUE)
    ELSE IF Char(Strip(s), 1) = "+" THEN IntOfBody(StrFrom(Strip(s), 2), FALSE)
    ELSE IntOfBody(Strip(s), FALSE)

\* int(x) at line 238: [ok, neg, digits]; ok = FALSE stands for the
\* TypeError or ValueError int() raises, and otherwise neg and digits are the
\* int returned.  A float truncates toward zero, a bool is 0 or 1, a str is
\* parsed as a decimal literal.
PyIntOf(x) ==
    CASE x.t = "int" -> AnInt(LongOfInt(x.i))
      [] x.t = "bool" -> AnInt(LongOfInt(IF x.b THEN 1 ELSE 0))
      [] x.t = "float" ->
            AnInt(LongOfInt(IF x.m >= 0 THEN x.m \div 10 ELSE -((-x.m) \div 10)))
      [] x.t = "str" -> IntOfStr(x.s)
      [] OTHER -> NotAnInt

\* isinstance(v, (int, float)); bool is a subclass of int.
IsNumber(v) == v.t \in {"int", "float", "bool"}

(***************************************************************************)
(* _validate_and_normalize_args                                            *)
(***************************************************************************)
\* args.get("query") or {}
QueryOf(args) == PyOr(DictGet(args, "query", PyNone), EmptyDict)

\* UnknownKeys reporting only the first key that is not allowed.
UnknownKeysFirstOnly(query) ==
    IF SelectSeq(DictKeys(query), LAMBDA k : k \notin ALLOWED_QUERY_KEYS) = <<>> THEN <<>>
    ELSE <<Head(SelectSeq(DictKeys(query), LAMBDA k : k \notin ALLOWED_QUERY_KEYS))>>

\* [k for k in query.keys() if k not in ALLOWED_QUERY_KEYS]
UnknownKeys(query) == SelectSeq(DictKeys(query), LAMBDA k : k \notin ALLOWED_QUERY_KEYS)

\* Lines 206-210 on the list `unknown`.
UnknownError(unknown) ==
    IF unknown # <<>>
    THEN <<"Invalid query keys: ">> \o Join(unknown, ", ")
            \o <<". Allowed: ">> \o Join(SortedAllowedKeys, ", ")
    ELSE <<>>

\* Lines 205-210: the message of the unknown-key failure, <<>> when there is none.
UnknownKeysError(query) == UnknownError(UnknownKeys(query))

\* Lines 212-213.
SentimentError(query) ==
    IF /\ HasKey(query, "sentiment")
       /\ DictGet(query, "sentiment", PyNone) \notin {PyStr(s) : s \in Sentiments}
    THEN <<"sentiment must be one of: Positive, Neutral, Negative.">>
    ELSE <<>>

\* Lines 217-224: the checks on sub = query["symbolmap.Company_Name"].
CompanyNameSubError(sub) ==
    IF sub.t # "dict"
    THEN <<"symbolmap.Company_Name must be an object.">>
    ELSE IF {sub.kv[n][1] : n \in 1..Len(sub.kv)} # {"$regex", "$options"}
    THEN <<"symbolmap.Company_Name must have keys: $regex and $options.">>
    ELSE IF \/ DictGet(sub, "$regex", PyNone).t # "str"
            \/ ~Truthy(DictGet(sub, "$regex", PyNone))
    THEN <<"symbolmap.Company_Name.$regex must be a non-empty string.">>
    ELSE IF DictGet(sub, "$options", PyNone) # PyStr("i")
    THEN <<"symbolmap.Company_Name.$options must be 'i'.">>
    ELSE <<>>

\* Lines 215-224.
CompanyNameError(query) ==
    IF HasKey(query, "symbolmap.Company_Name")
    THEN CompanyNameSubError(DictGet(query, "symbolmap.Company_Name", PyNone))
    ELSE <<>>

\* Lines 228-234: the checks on cmp_obj = query["impact score"].
ImpactScoreObjError(cmp_obj) ==
    IF cmp_obj.t # "dict" \/ ~Truthy(cmp_obj)
    THEN <<"impact score must be an object with comparison operator(s).">>
    ELSE IF \E n \in 1..Len(cmp_obj.kv) : cmp_obj.kv[n][1] \notin AllowedOps
    THEN <<"impact score uses only: $gt, $gte, $lt, $lte, $eq.">>
    ELSE IF ~(\A n \in 1..Len(cmp_obj.kv) : IsNumber(cmp_obj.kv[n][2]))
    THEN <<"impact score operator values must be numbers.">>
    ELSE <<>>

\* Lines 226-234.
ImpactScoreError(query) ==
    IF HasKey(query, "impact score")
    THEN ImpactScoreObjError(DictGet(query, "impact score", PyNone))
    ELSE <<>>

\* Lines 238-243 on the value of args.get("limit", 10): the limit, or the
\* failure of its coercion or of its range check.
CheckLimit(coerced) ==
    IF ~coerced.ok
    THEN Raise("ValidationError", <<"'limit' must be an integer between 1 and 50.">>)
    ELSE IF ~(LongLE(LongOfInt(MinLimit), coerced) /\ LongLE(coerced, LongOfInt(MaxLimit)))
    THEN Raise("ValidationError", <<"'limit' must be between 1 and 50.">>)
    ELSE [exc |-> "none", limit |-> LongValue(coerced)]

\* Lines 236-242.
LimitOf(args) == CheckLimit(PyIntOf(DictGet(args, "limit", PyInt(DefaultLimit))))

\* The first text of errs that is not empty, <<>> when all are: the checks
\* run in order and the first that fails raises.
FirstError(errs) ==
    IF \E n \in 1..Len(errs) : errs[n] # <<>>
    THEN errs[CHOOSE n \in 1..Len(errs) :
                 errs[n] # <<>> /\ \A m \in 1..(n - 1) : errs[m] = <<>>]
    ELSE <<>>

\* Lines 205-234: the first failing check of the filter, <<>> when all pass.
QueryError(query) ==
    FirstError(<<UnknownKeysError(query), SentimentError(query),
                 CompanyNameError(query), ImpactScoreError(query)>>)

\* Lines 205-243 once query is known to be a dict: qerr the failure of the
\* filter checks, lim the outcome of the limit checks.
ValidateRest(query, qerr, lim) ==
    IF qerr # <<>> THEN Raise("ValidationError", qerr)
    ELSE IF lim.exc # "none" THEN lim
    ELSE [exc |-> "none", query |-> query, limit |-> lim.limit]

\* Lines 201-243 on query = args.get("query") or {}.
ValidateQuery(args, query) ==
    IF query.t # "dict"
    THEN Raise("ValidationError", <<"'query' must be an object.">>)
    ELSE ValidateRest(query, QueryError(query), LimitOf(args))

\* _validate_and_normalize_args without the check that "query" is present.
ValidateQueryOptional(args) ==
    IF args.t # "dict"
    THEN Raise("ValidationError", <<"Arguments must be an object.">>)
    ELSE ValidateQuery(args, QueryOf(args))

\* _validate_and_normalize_args(args): [exc |-> "none", query, limit] on
\* return, Raise("ValidationError", msg) otherwise.
ValidateAndNormalizeArgs(args) ==
    IF args.t # "dict"
    THEN Raise("ValidationError", <<"Arguments must be an object.">>)
    ELSE IF ~HasKey(args, "query")
    THEN Raise("ValidationError", <<"Field 'query' is required.">>)
    ELSE ValidateQuery(args, QueryOf(args))

(***************************************************************************)
(* _fetch_from_mongo.  The store is an external collaborator: the reply it *)
(* gives to a request is chosen by the environment (see StoreReplies).     *)
(***************************************************************************)
Projection ==
    PyDict(<< <<"_id", PyInt(0)>>,
              <<"symbolmap.Company_Name", PyInt(1)>>,
              <<"symbolmap.NSE", PyInt(1)>>,
              <<"dt_tm", PyInt(1)>>,
              <<"short summary", PyInt(1)>>,
              <<"impact", PyInt(1)>>,
              <<"impact score", PyInt(1)>>,
              <<"sentiment", PyInt(1)>>,
              <<"news link", PyInt(1)>> >>)

\* pymongo.DESCENDING
DESCENDING == -1

\* coll.find(query, projection).sort("dt_tm", DESCENDING).limit(limit)
StoreRequest(query, limit) ==
    [filter |-> query, projection |-> Projection,
     sortField |-> "dt_tm", sortDirection |-> DESCENDING, limit |-> limit]

\* _fetch_from_mongo(query, limit) when the store answers `reply`:
\* the documents, MongoQueryError for a PyMongoError, and any other
\* exception of the driver unchanged.
FetchFromMongo(query, limit, reply) ==
    CASE reply.kind = "docs" -> [exc |-> "none", docs |-> reply.docs]
      [] reply.kind = "PyMongoError" ->
            Raise("MongoQueryError", <<"MongoDB error: ">> \o reply.msg)
      [] OTHER -> Raise(reply.kind, reply.msg)

(***************************************************************************)
(* _to_iso and _normalize_docs                                             *)
(***************************************************************************)
\* "%d.%d" spelling of the float m/10
FloatStr(m) ==
    IF m >= 0 THEN ToString(m \div 10) \o "." \o ToString(m % 10)
    ELSE "-" \o ToString((-m) \div 10) \o "." \o ToString((-m) % 10)

\* c in s
HasChar(s, c) == \E n \in 1..Len(s) : Char(s, n) = c

\* The quote repr() puts around s: " when s holds a ' and no ", else '.
QuoteOf(s) == IF HasChar(s, "'") /\ ~HasChar(s, "\"") THEN "\"" ELSE "'"

\* The control characters repr() writes as \xNN, each with its NN.
HexEscapes ==
    <<<<"", "01">>, <<"", "02">>, <<"", "03">>, <<"", "04">>,
       <<"", "05">>, <<"", "06">>, <<"", "07">>, <<"", "08">>,
       <<"", "0b">>, <<"\f", "0c">>, <<"", "0e">>, <<"", "0f">>,
       <<"", "10">>, <<"", "11">>, <<"", "12">>, <<"", "13">>,
       <<"", "14">>, <<"", "15">>, <<"", "16">>, <<"", "17">>,
       <<"", "18">>, <<"", "19">>, <<"", "1a">>, <<"", "1b">>,
       <<"", "1c">>, <<"", "1d">>, <<"", "1e">>, <<"", "1f">>,
       <<"", "7f">> >>

\* One character of s as repr() writes it inside the quote q.
ReprChar(c, q) ==
    CASE c = "\\" -> "\\\\"
      [] c = q -> "\\" \o q
      [] c = "\t" -> "\\t"
      [] c = "\n" -> "\\n"
      [] c = "\r" -> "\\r"
      [] \E n \in 1..Len(HexEscapes) : HexEscapes[n][1] = c ->
            "\\x" \o HexEscapes[CHOOSE n \in 1..Len(HexEscapes) : HexEscapes[n][1] = c][2]
      [] OTHER -> c

RECURSIVE ReprChars(_, _)
ReprChars(s, q) ==
    IF s = "" THEN "" ELSE ReprChar(Char(s, 1), q) \o ReprChars(StrFrom(s, 2), q)

\* repr(s) for a str s
StrRepr(s) == QuoteOf(s) \o ReprChars(s, QuoteOf(s)) \o QuoteOf(s)

RECURSIVE ZeroPad(_, _)
\* "%0wd" of a number spelled s
ZeroPad(s, w) == IF Len(s) >= w THEN s ELSE ZeroPad("0" \o s, w)

\* x.isoformat() for a naive datetime
IsoFormat(x) ==
    ZeroPad(ToString(x.year), 4) \o "-" \o ZeroPad(ToString(x.month), 2) \o "-"
        \o ZeroPad(ToString(x.day), 2) \o "T" \o ZeroPad(ToString(x.hour), 2) \o ":"
        \o ZeroPad(ToString(x.minute), 2) \o ":" \o ZeroPad(ToString(x.second), 2)
        \o (IF x.microsecond # 0 THEN "." \o ZeroPad(ToString(x.microsecond), 6) ELSE "")

\* repr(x) for a naive datetime: trailing zero second and microsecond are
\* left out.
DatetimeRepr(x) ==
    "datetime.datetime(" \o ToString(x.year) \o ", " \o ToString(x.month) \o ", "
        \o ToString(x.day) \o ", " \o ToString(x.hour) \o ", " \o ToString(x.minute)
        \o (IF x.second # 0 \/ x.microsecond # 0 THEN ", " \o ToString(x.second) ELSE "")
        \o (IF x.microsecond # 0 THEN ", " \o ToString(x.microsecond) ELSE "")
        \o ")"

RECURSIVE PyRepr(_)
RECURSIVE ReprItems(_)
RECURSIVE ReprPairs(_)
\* repr(x), which str(x) is for every type but str
PyRepr(x) ==
    CASE x.t = "none" -> "None"
      [] x.t = "bool" -> IF x.b THEN "True" ELSE "False"
      [] x.t = "int" -> ToString(x.i)
      [] x.t = "float" -> FloatStr(x.m)
      [] x.t = "str" -> StrRepr(x.s)
      [] x.t = "list" -> "[" \o ReprItems(x.xs) \o "]"
      [] x.t = "dict" -> "{" \o ReprPairs(x.kv) \o "}"
      [] OTHER -> DatetimeRepr(x)

ReprItems(xs) ==
    IF xs = <<>> THEN ""
    ELSE IF Len(xs) = 1 THEN PyRepr(xs[1])
    ELSE PyRepr(xs[1]) \o ", " \o ReprItems(Tail(xs))

ReprPairs(kv) ==
    IF kv = <<>> THEN ""
    ELSE IF Len(kv) = 1 THEN StrRepr(kv[1][1]) \o ": " \o PyRepr(kv[1][2])
    ELSE StrRepr(kv[1][1]) \o ": " \o PyRepr(kv[1][2]) \o ", " \o ReprPairs(Tail(kv))

\* _to_iso(x)
ToIso(x) ==
    IF x.t = "datetime" THEN PyStr(IsoFormat(x))
    ELSE IF x.t \in {"none", "str", "int", "float", "bool"} THEN x
    ELSE PyStr(PyRepr(x))

\* Lines 271-282 for document d, symbolmap being d.get("symbolmap") or {}:
\* [exc |-> "none", item], or the AttributeError of symbolmap.get on a
\* value that is no dict.
NormalizedItem(d, symbolmap) ==
    IF symbolmap.t # "dict"
    THEN Raise("AttributeError",
               <<"'", TypeName(symbolmap), "' object has no attribute 'get'">>)
    ELSE [exc |-> "none",
          item |-> PyDict(<<
            <<"company", PyOr(DictGet(symbolmap, "Company_Name", PyStr("")), PyStr(""))>>,
            <<"symbol", PyOr(DictGet(symbolmap, "NSE", PyStr("")), PyStr(""))>>,
            <<"dt", ToIso(DictGet(d, "dt_tm", PyNone))>>,
            <<"summary", PyOr(DictGet(d, "short summary", PyStr("")), PyStr(""))>>,
            <<"impact", DictGet(d, "impact", PyNone)>>,
            <<"score", DictGet(d, "impact score", PyNone)>>,
            <<"sentiment", DictGet(d, "sentiment", PyNone)>>,
            <<"link", PyOr(DictGet(d, "news link", PyStr("")), PyStr(""))>> >>)]

\* The body of the loop of _normalize_docs (lines 270-282) for document d.
NormalizeDoc(d) == NormalizedItem(d, PyOr(DictGet(d, "symbolmap", PyNone), EmptyDict))

RECURSIVE NormalizeFrom(_, _)
RECURSIVE NormalizeStep(_, _, _)
\* One turn of the loop: `one` is what the body made of docs[1].
NormalizeStep(docs, normalized, one) ==
    IF one.exc # "none" THEN one
    ELSE NormalizeFrom(Tail(docs), Append(normalized, one.item))

\* The loop of _normalize_docs over docs, `normalized` being the items
\* appended so far.
NormalizeFrom(docs, normalized) ==
    IF docs = <<>> THEN [exc |-> "none", items |-> normalized]
    ELSE NormalizeStep(docs, normalized, NormalizeDoc(docs[1]))

\* _normalize_docs(docs)
NormalizeDocs(docs) == NormalizeFrom(docs, <<>>)

(***************************************************************************)
(* Tool advertisement                                                      *)
(***************************************************************************)
\* _tool_descriptor_meta advertising the widget as accessible.
ToolDescriptorMetaUnlocked ==
    PyDict(<< <<"openai/outputTemplate", PyStr(WidgetTemplateUri)>>,
              <<"openai/toolInvocation/invoking", PyStr(WidgetInvoking)>>,
              <<"openai/toolInvocation/invoked", PyStr(WidgetInvoked)>>,
              <<"openai/widgetAccessible", PyBool(TRUE)>>,
              <<"annotations", PyDict(<< <<"readOnlyHint", PyBool(TRUE)>>,
                                         <<"destructiveHint", PyBool(FALSE)>>,
                                         <<"openWorldHint", PyBool(FALSE)>> >>)>> >>)

\* _tool_descriptor_meta()
ToolDescriptorMeta ==
    PyDict(<< <<"openai/outputTemplate", PyStr(WidgetTemplateUri)>>,
              <<"openai/toolInvocation/invoking", PyStr(WidgetInvoking)>>,
              <<"openai/toolInvocation/invoked", PyStr(WidgetInvoked)>>,
              <<"openai/widgetAccessible", PyBool(FALSE)>>,
              <<"annotations", PyDict(<< <<"readOnlyHint", PyBool(TRUE)>>,
                                         <<"destructiveHint", PyBool(FALSE)>>,
                                         <<"openWorldHint", PyBool(FALSE)>> >>)>> >>)

\* _list_tools(): the one tool descriptor
ListToolsResult ==
    << [name |-> ToolName, title |-> "News Impact Carousel",
        inputSchema |-> "NEWS_QUERY_SCHEMA", meta |-> ToolDescriptorMeta] >>

(***************************************************************************)
(* _call_tool_request                                                      *)
(***************************************************************************)
\* types.CallToolResult(content=[TextContent(text)], isError, structuredContent, _meta)
CallToolResult(text, isError, structuredContent, meta) ==
    [content |-> text, isError |-> isError,
     structuredContent |-> structuredContent, meta |-> meta]

\* Lines 381-387
ResultMeta ==
    PyDict(<< <<"openai/widgetAccessible", PyBool(TRUE)>>,
              <<"openai/resultCanProduceWidget", PyBool(TRUE)>>,
              <<"openai/outputTemplate", PyStr(WidgetTemplateUri)>>,
              <<"openai/toolInvocation/invoking", PyStr(WidgetInvoking)>>,
              <<"openai/toolInvocation/invoked", PyStr(WidgetInvoked)>> >>)

\* Line 341 and the end of the try body: n is what _normalize_docs gave.
AfterNormalize(n, sent) ==
    IF n.exc # "none"
    THEN [exc |-> n.exc, msg |-> n.msg, sent |-> sent]
    ELSE [exc |-> "none", normalized |-> n.items, sent |-> sent]

\* Lines 340-341: f is what _fetch_from_mongo gave, sent the request it made.
AfterFetch(f, sent) ==
    IF f.exc # "none"
    THEN [exc |-> f.exc, msg |-> f.msg, sent |-> sent]
    ELSE AfterNormalize(NormalizeDocs(f.docs), sent)

\* Lines 339-341: v is what _validate_and_normalize_args gave.
AfterValidate(v, reply) ==
    IF v.exc # "none"
    THEN [exc |-> v.exc, msg |-> v.msg, sent |-> <<>>]
    ELSE AfterFetch(FetchFromMongo(v.query, v.limit, reply),
                    <<StoreRequest(v.query, v.limit)>>)

\* Lines 339-341, the body of the try statement: what it leaves in
\* `normalized`, or the exception that ends it, and the requests it sent to
\* the store on the way.
TryBody(args, reply) == AfterValidate(ValidateAndNormalizeArgs(args), reply)

\* The except clauses without the last one (except Exception): what the
\* first two leave propagates out of the handler.
ExceptClausesNarrow(b) ==
    IF b.exc = "ValidationError"
    THEN [raised |-> FALSE,
          result |-> CallToolResult(<<"Validation error: ">> \o b.msg, TRUE, PyNone, PyNone),
          sent |-> b.sent]
    ELSE IF b.exc = "MongoQueryError"
    THEN [raised |-> FALSE,
          result |-> CallToolResult(<<"Database error: ">> \o b.msg, TRUE, PyNone, PyNone),
          sent |-> b.sent]
    ELSE [raised |-> TRUE,
          result |-> CallToolResult(<<>>, FALSE, PyNone, PyNone),
          sent |-> b.sent]

\* Lines 342-365: the except clauses, in order.  Every class raised in the
\* try body derives from Exception, so the last clause takes what the first
\* two leave.
ExceptClauses(b) ==
    IF b.exc = "ValidationError"
    THEN [raised |-> FALSE,
          result |-> CallToolResult(<<"Validation error: ">> \o b.msg, TRUE, PyNone, PyNone),
          sent |-> b.sent]
    ELSE IF b.exc = "MongoQueryError"
    THEN [raised |-> FALSE,
          result |-> CallToolResult(<<"Database error: ">> \o b.msg, TRUE, PyNone, PyNone),
          sent |-> b.sent]
    ELSE [raised |-> FALSE,
          result |-> CallToolResult(<<"Unexpected error: ">> \o b.msg, TRUE, PyNone, PyNone),
          sent |-> b.sent]

\* The response builder attaching the widget metadata on both branches.
BuildResponseAlwaysWidget(normalized) ==
    IF normalized = <<>>
    THEN CallToolResult(<<"No news matched your query. Widget not rendered.">>, FALSE,
                        PyDict(<< <<"items", PyList(<<>>)>> >>), ResultMeta)
    ELSE CallToolResult(<<"Fetched ", ToString(Len(normalized)), " item(s) for News Impact.">>,
                        FALSE,
                        PyDict(<< <<"items", PyList(normalized)>> >>), ResultMeta)

\* Lines 371-395: the response built from `normalized`.
BuildResponse(normalized) ==
    IF normalized = <<>>
    THEN CallToolResult(<<"No news matched your query. Widget not rendered.">>, FALSE,
                        PyDict(<< <<"items", PyList(<<>>)>> >>), PyNone)
    ELSE CallToolResult(<<"Fetched ", ToString(Len(normalized)), " item(s) for News Impact.">>,
                        FALSE,
                        PyDict(<< <<"items", PyList(normalized)>> >>), ResultMeta)

\* Lines 338-395: b is the outcome of the try body.
AfterTry(b) ==
    IF b.exc # "none"
    THEN ExceptClauses(b)
    ELSE [raised |-> FALSE, result |-> BuildResponse(b.normalized), sent |-> b.sent]

\* Lines 330-395 on args = req.params.arguments or {}.
Dispatch(name, args, reply) ==
    IF name # ToolName
    THEN [raised |-> FALSE,
          result |-> CallToolResult(<<"Unknown tool.">>, TRUE, PyNone, PyNone),
          sent |-> <<>>]
    ELSE AfterTry(TryBody(args, reply))

\* _call_tool_request(req) with req.params.name = name and
\* req.params.arguments = arguments, the store answering `reply` if asked:
\* [raised, result, sent]; sent are the requests made to the store, and
\* raised = TRUE would be an exception leaving the handler.
CallToolRequest(name, arguments, reply) == Dispatch(name, PyOr(arguments, EmptyDict), reply)

(***************************************************************************)
(* The environment: the requests callers send and the replies of the store *)
(***************************************************************************)
MaxQueryKeys == 2
MaxDocs == 2

FilterKeys == ALLOWED_QUERY_KEYS \cup {"symbol", "unknownField"}

CompanyNameValues ==
    { PyDict(<< <<"$regex", PyStr("tata")>>, <<"$options", PyStr("i")>> >>),
      PyDict(<< <<"$regex", PyStr("tata")>> >>),
      PyDict(<< <<"$regex", PyStr("")>>, <<"$options", PyStr("i")>> >>),
      PyDict(<< <<"$regex", PyStr("tata")>>, <<"$options", PyStr("x")>> >>),
      PyStr("tata") }

ImpactScoreValues ==
    { PyDict(<< <<"$gt", PyInt(5)>>, <<"$lt", PyInt(3)>> >>),
      PyDict(<< <<"$gt", PyInt(1)>>, <<"$gte", PyInt(2)>>, <<"$lt", PyInt(9)>> >>),
      PyDict(<< <<"$gte", PyBool(TRUE)>> >>),
      PyDict(<< <<"$ne", PyInt(5)>> >>),
      PyDict(<< <<"$gt", PyStr("5")>> >>),
      EmptyDict,
      PyInt(5) }

\* The values a caller may give under filter key k.
FilterValues(k) ==
    CASE k = "sentiment" -> {PyStr("Positive"), PyStr("Bad")}
      [] k = "symbolmap.Company_Name" -> CompanyNameValues
      [] k = "impact score" -> ImpactScoreValues
      [] k = "unknownField" -> {PyStr("x")}
      [] OTHER -> {PyStr("RELIANCE")}

FilterPairs == UNION {{<<k, v>> : v \in FilterValues(k)} : k \in FilterKeys}

\* The JSON objects with at most MaxQueryKeys distinct members.
Filters ==
    UNION {{PyDict(kv) : kv \in {s \in [1..n -> FilterPairs] :
                                   \A a, b \in 1..n : s[a][1] = s[b][1] => a = b}}
           : n \in 0..MaxQueryKeys}

\* What "query" may hold: a filter, null, or a string.
QueryValues == Filters \cup {PyNone, PyStr("RELIANCE")}

\* What "limit" may hold.
LimitValues ==
    {PyInt(0), PyInt(1), PyInt(50), PyInt(51), PyInt(100),
     PyStr("+07\n"), PyStr("-12_345678901"), PyStr("1__0"), PyFloat(5)}

\* req.params.arguments: absent (None), or an object with "query" and
\* "limit" each present or not.
ArgumentValues ==
    {PyNone} \cup
    {PyDict(q \o l) : q \in {<<>>} \cup {<< <<"query", x>> >> : x \in QueryValues},
                      l \in {<<>>} \cup {<< <<"limit", x>> >> : x \in LimitValues}}

ToolNames == {ToolName, "other-tool"}

\* Documents of the collection as find() returns them under Projection.
DocFull ==
    PyDict(<< <<"symbolmap", PyDict(<< <<"Company_Name", PyStr("Reliance Industries")>>,
                                       <<"NSE", PyStr("RELIANCE")>> >>)>>,
              <<"dt_tm", PyDatetime(2024, 5, 1, 10, 30, 0, 0)>>,
              <<"short summary", PyStr("Q4 results beat estimates")>>,
              <<"impact", PyStr("High")>>,
              <<"impact score", PyInt(7)>>,
              <<"sentiment", PyStr("Positive")>>,
              <<"news link", PyStr("https://example.com/a")>> >>)

\* no sentiment, a score above 10, a string timestamp, no NSE code
DocNoSentiment ==
    PyDict(<< <<"symbolmap", PyDict(<< <<"Company_Name", PyStr("Tata Motors")>> >>)>>,
              <<"dt_tm", PyStr("2024-04-30 09:00")>>,
              <<"short summary", PyStr("Recall announced")>>,
              <<"impact score", PyInt(12)>> >>)

\* an empty sentiment, a score below 0, a null symbolmap, no timestamp
DocEmptySentiment ==
    PyDict(<< <<"symbolmap", PyNone>>,
              <<"impact", PyStr("Low")>>,
              <<"impact score", PyInt(-3)>>,
              <<"sentiment", PyStr("")>>,
              <<"news link", PyStr("https://example.com/c")>> >>)

\* a null sentiment, a float score, a timestamp that is an array
DocNullSentiment ==
    PyDict(<< <<"symbolmap", PyDict(<< <<"NSE", PyStr("INFY")>> >>)>>,
              <<"dt_tm", PyList(<<PyDatetime(2024, 4, 28, 16, 5, 9, 0), PyStr("IST's"),
                                  PyInt(4)>>)>>,
              <<"short summary", PyNone>>,
              <<"impact score", PyFloat(75)>>,
              <<"sentiment", PyNone>> >>)

\* symbolmap stored as an array of sub-documents: the dotted projection
\* keeps the array
DocArraySymbolmap ==
    PyDict(<< <<"symbolmap", PyList(<< PyDict(<< <<"NSE", PyStr("TCS")>> >>) >>)>>,
              <<"dt_tm", PyDatetime(2024, 4, 29, 8, 15, 0, 123000)>>,
              <<"impact score", PyInt(4)>>,
              <<"sentiment", PyStr("Negative")>> >>)

DocPool == {DocFull, DocNoSentiment, DocEmptySentiment, DocNullSentiment, DocArraySymbolmap}

NoReply == [kind |-> "none"]

\* What the driver does on a request: at most MaxDocs documents, a
\* PyMongoError (server unreachable), or an exception that is no
\* PyMongoError (bson refusing to encode the filter).
StoreReplies ==
    UNION {{[kind |-> "docs", docs |-> ds] : ds \in [1..n -> DocPool]} : n \in 0..MaxDocs}
    \cup {[kind |-> "PyMongoError", msg |-> <<"localhost:27017: Connection refused">>],
          [kind |-> "OverflowError", msg |-> <<"MongoDB can only handle up to 8-byte ints">>]}

NoRequest == [name |-> "", arguments |-> PyNone]
NoCall == [raised |-> FALSE, result |-> CallToolResult(<<>>, FALSE, PyNone, PyNone), sent |-> <<>>]

\* The call reaches _fetch_from_mongo: it names the tool and validates.
ReachesStore(req) ==
    /\ req.name = ToolName
    /\ ValidateAndNormalizeArgs(PyOr(req.arguments, EmptyDict)).exc = "none"

\* The response enables the widget.
RenderEnabled(meta) ==
    /\ meta.t = "dict"
    /\ \/ Truthy(DictGet(meta, "openai/widgetAccessible", PyNone))
       \/ Truthy(DictGet(meta, "openai/resultCanProduceWidget", PyNone))

(***************************************************************************)
(* State machine.  The handlers are coroutines that never await, so each   *)
(* runs to completion once the transport has dispatched the request.       *)
(*   pc         "idle" | "received" | "responded" | "advertised"           *)
(*   request    the CallToolRequest being served                           *)
(*   storeReply the reply the store gave to the call                       *)
(*   call       what _call_tool_request did: the result it returned (or    *)
(*              raised = TRUE) and the requests it sent to the store       *)
(*   advert     what _list_tools returned                                  *)
(*   readySeen  an earlier call of the session ended with the widget on    *)
(***************************************************************************)
Init ==
    /\ pc = "idle"
    /\ request = NoRequest
    /\ storeReply = NoReply
    /\ call = NoCall
    /\ advert = <<>>
    /\ readySeen = FALSE

\* The transport hands a CallToolRequest to the server.
Receive ==
    /\ pc = "idle"
    /\ \E name \in ToolNames, arguments \in ArgumentValues :
          request' = [name |-> name, arguments |-> arguments]
    /\ pc' = "received"
    /\ UNCHANGED <<storeReply, call, advert, readySeen>>

\* _call_tool_request runs on the request; the store, if asked, answers
\* with at most `limit` documents or fails.
CallTool ==
    /\ pc = "received"
    /\ \E reply \in IF ReachesStore(request) THEN StoreReplies ELSE {NoReply} :
          /\ reply.kind = "docs" =>
                Len(reply.docs) <= LimitOf(PyOr(request.arguments, EmptyDict)).limit
          /\ call' = CallToolRequest(request.name, request.arguments, reply)
          /\ storeReply' = reply
    /\ pc' = "responded"
    /\ UNCHANGED <<request, advert, readySeen>>

\* _list_tools runs.
ListTools ==
    /\ pc = "idle"
    /\ advert' = ListToolsResult
    /\ pc' = "advertised"
    /\ UNCHANGED <<request, storeReply, call, readySeen>>

\* The transport sends the result and the server waits for the next request.
Deliver ==
    /\ pc \in {"responded", "advertised"}
    /\ readySeen' = (readySeen \/ (pc = "responded" /\ RenderEnabled(call.result.meta)))
    /\ pc' = "idle"
    /\ request' = NoRequest
    /\ storeReply' = NoReply
    /\ call' = NoCall
    /\ advert' = <<>>

Next == Receive \/ CallTool \/ ListTools \/ Deliver

Spec == Init /\ [][Next]_vars

(***************************************************************************)
(* Vocabulary of the properties                                            *)
(***************************************************************************)
Result == call.result

\* req.params.arguments or {}
Args == PyOr(request.arguments, EmptyDict)

\* A call to the news-impact tool has been answered.
ToolCallDone == pc = "responded" /\ request.name = ToolName

GivenQuery == DictGet(Args, "query", PyNone)
GivenLimit == DictGet(Args, "limit", PyNone)

\* The keys of the given filter that are outside the whitelist.
OffendingKeys ==
    IF GivenQuery.t = "dict"
    THEN {GivenQuery.kv[n][1] : n \in 1..Len(GivenQuery.kv)}
            \ {"sentiment", "symbolmap.NSE", "symbolmap.Company_Name", "impact score"}
    ELSE {}

\* The four terminal responses and the call-level error of an unexpected
\* exception, told apart by what the caller receives.
IsRejected(r) == r.isError /\ r.content # <<>> /\ Head(r.content) = "Validation error: "
IsStoreFailure(r) == r.isError /\ r.content # <<>> /\ Head(r.content) = "Database error: "
IsUnexpected(r) == r.isError /\ r.content # <<>> /\ Head(r.content) = "Unexpected error: "
CarriesItems(r) ==
    /\ r.structuredContent.t = "dict"
    /\ DictGet(r.structuredContent, "items", PyNone).t = "list"
ItemsOf(r) == DictGet(r.structuredContent, "items", PyNone).xs
IsEmpty(r) == ~r.isError /\ CarriesItems(r) /\ ItemsOf(r) = <<>>
IsReady(r) == ~r.isError /\ CarriesItems(r) /\ ItemsOf(r) # <<>> /\ RenderEnabled(r.meta)

\* The store was not asked anything during the call.
StoreUntouched == call.sent = <<>> /\ storeReply = NoReply

\* The store answered the call with documents.
StoreReturnedDocs == pc = "responded" /\ storeReply.kind = "docs"

\* The filter of the call passes every check of the validator.
ValidFilterGiven ==
    /\ HasKey(Args, "query")
    /\ QueryOf(Args).t = "dict"
    /\ QueryError(QueryOf(Args)) = <<>>

\* "limit" is given and coerces to an integer outside [1, 50].
LimitOutOfRange ==
    /\ HasKey(Args, "limit")
    /\ PyIntOf(GivenLimit).ok
    /\ \/ LongLess(PyIntOf(GivenLimit), LongOfInt(1))
       \/ LongLess(LongOfInt(50), PyIntOf(GivenLimit))

\* The response has one item per returned document.
ItemPerDocument ==
    /\ StoreReturnedDocs
    /\ CarriesItems(Result)
    /\ Len(ItemsOf(Result)) = Len(storeReply.docs)
    /\ storeReply.docs # <<>>

\* The number v in tenths.
Tenths(v) == IF v.t = "int" THEN 10 * v.i ELSE v.m

(***************************************************************************)
(* Properties                                                              *)
(***************************************************************************)
\* C1: a call whose filter has a key outside the whitelist ends in a
\* validation error whose message names every offending key and then lists
\* the four allowed keys, and the store is not queried.
C1_UnknownKeysRejected ==
    (ToolCallDone /\ OffendingKeys # {}) =>
        /\ IsRejected(Result)
        /\ \E a \in 1..Len(Result.content) :
              /\ Result.content[a] = ". Allowed: "
              /\ \A k \in OffendingKeys :
                    \E n \in 1..(a - 1) : Result.content[n] = k
              /\ \A k \in {"sentiment", "symbolmap.NSE", "symbolmap.Company_Name", "impact score"} :
                    \E n \in (a + 1)..Len(Result.content) : Result.content[n] = k
        /\ StoreUntouched

\* C1 witness: a filter with two unknown keys was rejected.
C1_Witness ==
    /\ ToolCallDone
    /\ OffendingKeys = {"symbol", "unknownField"}
    /\ IsRejected(Result)

\* C2: the store is queried only by a call that passed validation; a call
\* that fails validation, and a call with no "query" field (absent or empty
\* arguments included), is Rejected without the store being reached.
C2_StoreOnlyAfterValidation ==
    pc = "responded" =>
        /\ call.sent # <<>> =>
              /\ request.name = ToolName
              /\ ValidateAndNormalizeArgs(Args).exc = "none"
              /\ Len(call.sent) = 1
        /\ (request.name = ToolName /\ ValidateAndNormalizeArgs(Args).exc # "none") =>
              IsRejected(Result) /\ StoreUntouched
        /\ (request.name = ToolName /\ ~HasKey(Args, "query")) =>
              IsRejected(Result) /\ StoreUntouched

\* C2 witness: a call without arguments was rejected, the store untouched.
C2_Witness ==
    /\ ToolCallDone
    /\ request.arguments = PyNone
    /\ IsRejected(Result)
    /\ StoreUntouched

\* C3: a call with a valid filter and a limit that coerces to an
\* integer outside [1,50] is not rejected and queries the store with the
\* limit clamped into [1,50].
C3_LimitClamped ==
    (ToolCallDone /\ ValidFilterGiven /\ LimitOutOfRange) =>
        /\ ~IsRejected(Result)
        /\ Len(call.sent) = 1
        /\ call.sent[1].limit =
              IF LongLess(PyIntOf(GivenLimit), LongOfInt(1)) THEN 1 ELSE 50

\* C4: whenever the store returns zero documents, the response has an empty
\* item list and no render-enable signal, whatever the filter and whatever
\* earlier calls returned.
C4_EmptyResultNoWidget ==
    (StoreReturnedDocs /\ storeReply.docs = <<>>) =>
        /\ IsEmpty(Result)
        /\ Result.structuredContent = PyDict(<< <<"items", PyList(<<>>)>> >>)
        /\ ~RenderEnabled(Result.meta)

\* C4 witness: an empty result after an earlier call had enabled the widget.
C4_Witness ==
    /\ StoreReturnedDocs
    /\ storeReply.docs = <<>>
    /\ readySeen
    /\ IsEmpty(Result)

\* C5 as stated: whenever the store returns n >= 1 documents, the response
\* has the render-enable signal on and exactly n items, the i-th being the
\* normalization of the i-th document.
C5_ReadyCarriesAllDocs ==
    (StoreReturnedDocs /\ storeReply.docs # <<>>) =>
        /\ RenderEnabled(Result.meta)
        /\ CarriesItems(Result)
        /\ Len(ItemsOf(Result)) = Len(storeReply.docs)
        /\ \A n \in 1..Len(storeReply.docs) :
              /\ NormalizeDoc(storeReply.docs[n]).exc = "none"
              /\ ItemsOf(Result)[n] = NormalizeDoc(storeReply.docs[n]).item

\* C6 as stated: an item made from a document whose sentiment is missing,
\* null or empty has sentiment "Neutral", and no item has a null or empty
\* sentiment.
C6_SentimentDefaultsNeutral ==
    ItemPerDocument =>
        \A n \in 1..Len(storeReply.docs) :
            /\ DictGet(storeReply.docs[n], "sentiment", PyNone) \in {PyNone, PyStr("")} =>
                  DictGet(ItemsOf(Result)[n], "sentiment", PyNone) = PyStr("Neutral")
            /\ DictGet(ItemsOf(Result)[n], "sentiment", PyNone) \notin {PyNone, PyStr("")}

\* C7 as stated: a call whose "impact score" range passed validation (the
\* store was queried) has a range that is an object of one or two keys, all
\* among the five comparison operators, with numeric values (a value counts
\* as numeric here when isinstance(v, (int, float)) does, bool included).
C7_ImpactRangeShape ==
    (ToolCallDone /\ GivenQuery.t = "dict" /\ HasKey(GivenQuery, "impact score")
        /\ call.sent # <<>>) =>
        LET range == DictGet(GivenQuery, "impact score", PyNone) IN
        /\ range.t = "dict"
        /\ Len(range.kv) \in {1, 2}
        /\ \A n \in 1..Len(range.kv) :
              /\ range.kv[n][1] \in {"$gt", "$gte", "$lt", "$lte", "$eq"}
              /\ range.kv[n][2].t \in {"int", "float", "bool"}

\* C8: every call to the tool returns one response and raises nothing; the
\* response is Rejected, StoreFailure, Empty, Ready or the call-level error
\* of an unexpected exception, and exactly one of them; an error response
\* is flagged as an error, carries one message and neither items nor the
\* render-enable signal.
C8_OneTerminalResponse ==
    ToolCallDone =>
        /\ ~call.raised
        /\ Cardinality({k \in {"Rejected", "StoreFailure", "Unexpected", "Empty", "Ready"} :
              CASE k = "Rejected" -> IsRejected(Result)
                [] k = "StoreFailure" -> IsStoreFailure(Result)
                [] k = "Unexpected" -> IsUnexpected(Result)
                [] k = "Empty" -> IsEmpty(Result)
                [] OTHER -> IsReady(Result)}) = 1
        /\ IsRejected(Result) <=> call.sent = <<>>
        /\ IsStoreFailure(Result) <=> storeReply.kind = "PyMongoError"
        /\ Result.isError =>
              /\ Len(Result.content) >= 2
              /\ Result.structuredContent = PyNone
              /\ Result.meta = PyNone

\* C8 witness: an exception of the normalizer was reported as a call-level
\* error.
C8_Witness ==
    /\ ToolCallDone
    /\ storeReply.kind = "docs"
    /\ IsUnexpected(Result)
    /\ ~call.raised

\* C9: every advertisement of the tool declares the render-enable signal
\* off, also after calls that returned Ready, and a response has the signal
\* on only when the store returned at least one document to that call.
C9_AdvertisedLocked ==
    /\ pc = "advertised" =>
          /\ advert # <<>>
          /\ \A n \in 1..Len(advert) :
                /\ ~RenderEnabled(advert[n].meta)
                /\ DictGet(advert[n].meta, "openai/widgetAccessible", PyNone) = PyBool(FALSE)
    /\ (pc = "responded" /\ RenderEnabled(Result.meta)) =>
          /\ storeReply.kind = "docs"
          /\ storeReply.docs # <<>>

\* C9 witness: an advertisement made after a call that enabled the widget.
C9_Witness ==
    /\ pc = "advertised"
    /\ readySeen
    /\ advert # <<>>

\* C10: the score of an item made from a document with a numeric
\* impact score is that score clamped into [0,10].
C10_ScoreClamped ==
    ItemPerDocument =>
        \A n \in 1..Len(storeReply.docs) :
            LET stored == DictGet(storeReply.docs[n], "impact score", PyNone)
                emitted == DictGet(ItemsOf(Result)[n], "score", PyNone) IN
            stored.t \in {"int", "float"} =>
                /\ emitted.t \in {"int", "float"}
                /\ Tenths(emitted) =
                      IF Tenths(stored) < 0 THEN 0
                      ELSE IF Tenths(stored) > 100 THEN 100 ELSE Tenths(stored)

====
